---------------------------- MODULE Spec2Model ----------------------------
(***************************************************************************)
(* A model of the life-curve timeline application (src/timeline.js, lines   *)
(* 1-1610: the timeline engine followed by the application shell).          *)
(*                                                                         *)
(* The program's state is the module-level `let` variables of the engine,   *)
(* the `state` object of the shell, the few DOM values the handlers read    *)
(* back (the zoom slider and its readout, the visible section, the set of   *)
(* listeners registered on the canvas) and the callbacks in flight (export  *)
(* timers, image decodes).  One action models one event handler, with       *)
(* every call it makes, the trailing renderTimeline() included.            *)
(*                                                                         *)
(* JavaScript numbers are modelled as exact rationals <<n, d>> (d > 0, in   *)
(* lowest terms) together with the two non-numbers NaN and undefined, so    *)
(* that the falsy tests of the code (!x, x || y) and its === undefined      *)
(* tests keep their different meanings.  Write-only state (lastPoint, the   *)
(* cursor style, the painted pixels) is not part of the model.              *)
(***************************************************************************)
EXTENDS Integers, Sequences, FiniteSets, TLC

(***************************************************************************)
(* JavaScript numbers                                                      *)
(***************************************************************************)
NaN == <<0, 0>>
Undefined == <<1, 0>>

IsNum(v) == v[2] # 0

Abs(n) == IF n < 0 THEN -n ELSE n

RECURSIVE GCD(_, _)
GCD(a, b) == IF b = 0 THEN a ELSE GCD(b, a % b)

Rat(n, d) ==
    IF d = 0 THEN NaN
    ELSE LET g == GCD(Abs(n), Abs(d))
             s == IF d < 0 THEN -1 ELSE 1
         IN  <<(s * n) \div g, (s * d) \div g>>

Num(n) == <<n, 1>>

Add(a, b) == IF IsNum(a) /\ IsNum(b)
             THEN Rat(a[1] * b[2] + b[1] * a[2], a[2] * b[2]) ELSE NaN

Sub(a, b) == IF IsNum(a) /\ IsNum(b)
             THEN Rat(a[1] * b[2] - b[1] * a[2], a[2] * b[2]) ELSE NaN

Mul(a, b) == IF IsNum(a) /\ IsNum(b) THEN Rat(a[1] * b[1], a[2] * b[2]) ELSE NaN

\* every divisor of the program (zoomLevel, totalDays, canvasHeight / 4) is
\* a non-zero number or NaN, so JavaScript's Infinity never arises
Div(a, b) == IF IsNum(a) /\ IsNum(b) THEN Rat(a[1] * b[2], a[2] * b[1]) ELSE NaN

\* comparisons with NaN or undefined are false, as in JavaScript
Lt(a, b) == IsNum(a) /\ IsNum(b) /\ a[1] * b[2] < b[1] * a[2]
Le(a, b) == IsNum(a) /\ IsNum(b) /\ a[1] * b[2] <= b[1] * a[2]

AbsNum(a) == IF IsNum(a) THEN <<Abs(a[1]), a[2]>> ELSE NaN

\* Math.floor
Floor(a) == IF IsNum(a) THEN Num(a[1] \div a[2]) ELSE NaN

\* Math.round: the nearest integer, halves towards +Infinity
Round(a) == IF IsNum(a) THEN Num((2 * a[1] + a[2]) \div (2 * a[2])) ELSE NaN

\* !v for a number-or-undefined v: undefined, NaN and 0 are falsy
Falsy(v) == ~IsNum(v) \/ v[1] = 0

\* a || b
OrElse(a, b) == IF Falsy(a) THEN b ELSE a

(***************************************************************************)
(* Dates.  A Date is [valid, year, ord, hour, dst]: the local calendar      *)
(* year, the 1-based ordinal day in that year, the local hour of day, and   *)
(* the hours by which the local UTC offset at that instant exceeds the      *)
(* offset at the start of the year (1 in a daylight-saving period).         *)
(* new Date(<unparsable>) is the invalid Date, whose time value is NaN.     *)
(***************************************************************************)
InvalidDate == [valid |-> FALSE, year |-> 0, ord |-> 0, hour |-> 0, dst |-> 0]

MkDate(y, o, h, s) == [valid |-> TRUE, year |-> y, ord |-> o, hour |-> h, dst |-> s]

\* date.getFullYear()
getFullYear(date) == IF date.valid THEN Num(date.year) ELSE NaN

\* start = new Date(year, 0, 0) is local midnight of Dec 31 of the previous
\* year; date - start is the elapsed (not the wall-clock) time between them
getDayOfYear(date) ==
    IF ~date.valid THEN NaN
    ELSE LET diffHours == date.ord * 24 + date.hour - date.dst
         IN  Floor(Rat(diffHours, 24))

\* the leap-year rule without its century exceptions
isLeapYearEveryFourth(year) == year % 4 = 0

isLeapYear(year) == (year % 4 = 0 /\ year % 100 # 0) \/ year % 400 = 0

(***************************************************************************)
(* State                                                                   *)
(***************************************************************************)
VARIABLES
    \* timeline engine (src/timeline.js:2-15, 836)
    canvasWidth, canvasHeight,
    isDrawing, isDraggingPhoto, draggedPhoto, hoveredPhoto,
    zoomLevel, panX, panY, isPanning, panStart, spacePressed,
    frame,                 \* what the canvas shows: the photo images painted on it
    \* the `state` object (src/timeline.js:938-944)
    photos, selectedYear, orientation, isDrawingMode, curvePoints,
    \* application shell
    currentModalPhotoId,   \* src/timeline.js:983
    zoomSlider, zoomValue, \* elements.zoomSlider.value, elements.zoomValue.textContent
    section,               \* which of uploadSection / timelineSection is shown
    canvasListeners,       \* initializeTimeline has registered the canvas handlers
    drawListeners,         \* enableDrawing's listeners are registered on the canvas
    pendingExports,        \* export callbacks in flight, oldest first
    nextId,                \* photo ids are unique: the next one to hand out
    detached,              \* photo objects no longer in state.photos whose image
                           \* is still decoding with an onload handler set
    \* the pointing device, as the browser sees it
    buttonDown,            \* a mouse button is held
    pointerInside,         \* the pointer is over the canvas
    touching,              \* a finger is on the canvas
    \* history kept for the statement of the properties only
    press,                 \* the last press/release pair: where, on what, how long
    userSet,               \* per photo id: the free-axis value last set by drag in each
                           \* orientation, and where the photo was at its first press
    steps                  \* events handled so far

engineVars == <<canvasWidth, canvasHeight, isDrawing, isDraggingPhoto, draggedPhoto,
                hoveredPhoto, zoomLevel, panX, panY, isPanning, panStart, spacePressed,
                frame>>
stateVars == <<photos, selectedYear, orientation, isDrawingMode, curvePoints>>
shellVars == <<currentModalPhotoId, zoomSlider, zoomValue, section, canvasListeners,
               drawListeners, pendingExports, nextId, detached>>
envVars == <<buttonDown, pointerInside, touching, press>>
vars == <<engineVars, stateVars, shellVars, envVars, userSet, steps>>

\* draggedPhoto = null, hoveredPhoto = null, currentModalPhotoId = null
NoPhoto == 0
\* state.selectedYear = null; null % n is 0 in JavaScript, as 0 % n is
NullYear == 0
\* state.selectedYear = NaN; NaN % n === 0 is false, as (-1) % n = 0 is
NaNYear == -1

(***************************************************************************)
(* Photos.  hasValidDate holds whatever                                    *)
(*   exifData && (DateTimeOriginal || DateTime || CreateDate)               *)
(* evaluated to: a date value ("date"), undefined, null, or the boolean     *)
(* false that the render pass tests for.                                   *)
(***************************************************************************)
MkPhoto(id, exif, hvd, date) ==
    [id |-> id, exifData |-> exif, hasValidDate |-> hvd, captureDate |-> date,
     timelineX |-> Undefined, timelineY |-> Undefined,
     originalX |-> Undefined, originalY |-> Undefined,
     initialTimelineY |-> Undefined,
     cachedImage |-> "none", onload |-> FALSE,
     \* the x and y the closure in img.onload was created with
     onloadX |-> Undefined, onloadY |-> Undefined]

\* p.hasValidDate !== false  /  p.hasValidDate === false
WithDate(p) == p.hasValidDate # "false"
WithoutDate(p) == p.hasValidDate = "false"

\* the index of ps[i] in ps.filter(p => p.hasValidDate === false)
IndexWithoutDate(ps, i) == Cardinality({j \in 1..(i - 1) : WithoutDate(ps[j])})

\* index of the photo object with this id in state.photos, 0 if it is not there
IndexOf(ps, id) ==
    IF \E i \in DOMAIN ps : ps[i].id = id
    THEN CHOOSE i \in DOMAIN ps : ps[i].id = id
    ELSE 0

(***************************************************************************)
(* Emotion level                                                           *)
(***************************************************************************)
\* the anchor calculateEmotionLevel leaves in photo.initialTimelineY
AnchorAfter(photo, o, H) ==
    IF Falsy(photo.initialTimelineY)
    THEN IF o = "horizontal" THEN Div(Num(H), Num(2)) ELSE photo.timelineY
    ELSE photo.initialTimelineY

\* calculateEmotionLevel without the clamp to -10 .. 10
calculateEmotionLevelUnclamped(photo, o, H) ==
    LET centerY == IF o = "horizontal" THEN Div(Num(H), Num(2)) ELSE AnchorAfter(photo, o, H)
        maxDistance == Div(Num(H), Num(4))
        distance == Sub(centerY, photo.timelineY)
    IN  Round(Mul(Div(distance, maxDistance), Num(10)))

calculateEmotionLevel(photo, o, H) ==
    LET centerY == IF o = "horizontal" THEN Div(Num(H), Num(2)) ELSE AnchorAfter(photo, o, H)
        maxDistance == Div(Num(H), Num(4))
        distance == Sub(centerY, photo.timelineY)
        level == Round(Mul(Div(distance, maxDistance), Num(10)))
    IN  IF ~IsNum(level) THEN NaN
        ELSE IF Lt(level, Num(-10)) THEN Num(-10)
        ELSE IF Lt(Num(10), level) THEN Num(10)
        ELSE level

(***************************************************************************)
(* Rendering.  The render pass paints, and on the way assigns positions.    *)
(***************************************************************************)
\* drawImageContent: the only state it touches is the anchor that
\* drawEmotionLevel -> calculateEmotionLevel stores in the dragged photo
drawImageContent(photo, o, H, dragging, dragged) ==
    IF dragging /\ dragged = photo.id
    THEN [photo EXCEPT !.initialTimelineY = AnchorAfter(photo, o, H)]
    ELSE photo

drawPhoto(photo, o, H, dragging, dragged) ==
    LET img == IF photo.cachedImage = "none" THEN "loading" ELSE photo.cachedImage
        p1 == [photo EXCEPT !.cachedImage = img]
    IN  IF img = "complete"
        THEN drawImageContent(p1, o, H, dragging, dragged)
        ELSE [p1 EXCEPT !.onload = TRUE,
                        !.onloadX = photo.timelineX, !.onloadY = photo.timelineY]

Padding == 80

\* a horizontal pass that adds the axis offset to the stored x (+= for =)
HorizontalDatedAccumulate(photo, W, H, year, dragging, dragged) ==
    LET timelineY == Div(Num(H), Num(2))
        timelineStart == Num(Padding)
        timelineLength == Sub(Sub(Num(W), Num(Padding)), timelineStart)
        dayOfYear == getDayOfYear(photo.captureDate)
        totalDays == IF isLeapYear(year) THEN Num(366) ELSE Num(365)
        x == Add(timelineStart, Div(Mul(timelineLength, dayOfYear), totalDays))
        p1 == IF photo.timelineY = Undefined
              THEN [photo EXCEPT !.timelineY = timelineY] ELSE photo
        p2 == [p1 EXCEPT !.timelineX = IF @ = Undefined THEN x ELSE Add(@, x)]
    IN  drawPhoto(p2, "horizontal", H, dragging, dragged)

\* a horizontal pass whose axis starts at the canvas edge (0 for padding)
HorizontalDatedFromEdge(photo, W, H, year, dragging, dragged) ==
    LET timelineY == Div(Num(H), Num(2))
        timelineStart == Num(0)
        timelineLength == Sub(Sub(Num(W), Num(Padding)), timelineStart)
        dayOfYear == getDayOfYear(photo.captureDate)
        totalDays == IF isLeapYear(year) THEN Num(366) ELSE Num(365)
        x == Add(timelineStart, Div(Mul(timelineLength, dayOfYear), totalDays))
        p1 == IF photo.timelineY = Undefined
              THEN [photo EXCEPT !.timelineY = timelineY] ELSE photo
        p2 == [p1 EXCEPT !.timelineX = x]
    IN  drawPhoto(p2, "horizontal", H, dragging, dragged)

\* the forEach body of renderHorizontalTimeline for one dated photo
HorizontalDated(photo, W, H, year, dragging, dragged) ==
    LET timelineY == Div(Num(H), Num(2))
        timelineStart == Num(Padding)
        timelineLength == Sub(Sub(Num(W), Num(Padding)), timelineStart)
        dayOfYear == getDayOfYear(photo.captureDate)
        totalDays == IF isLeapYear(year) THEN Num(366) ELSE Num(365)
        x == Add(timelineStart, Div(Mul(timelineLength, dayOfYear), totalDays))
        p1 == IF photo.timelineY = Undefined
              THEN [photo EXCEPT !.timelineY = timelineY] ELSE photo
        p2 == [p1 EXCEPT !.timelineX = x]
    IN  drawPhoto(p2, "horizontal", H, dragging, dragged)

\* the forEach body of renderVerticalTimeline for one dated photo
VerticalDated(photo, W, H, year, dragging, dragged) ==
    LET timelineX == Div(Num(W), Num(2))
        timelineStart == Num(Padding)
        timelineLength == Sub(Sub(Num(H), Num(Padding)), timelineStart)
        dayOfYear == getDayOfYear(photo.captureDate)
        totalDays == IF isLeapYear(year) THEN Num(366) ELSE Num(365)
        y == Add(timelineStart, Div(Mul(timelineLength, dayOfYear), totalDays))
        p1 == IF photo.timelineX = Undefined
              THEN [photo EXCEPT !.timelineX = timelineX] ELSE photo
        p2 == [p1 EXCEPT !.timelineY = y]
    IN  drawPhoto(p2, "vertical", H, dragging, dragged)

PhotoSize == 50
Gap == 10

\* the forEach body of drawNoDateZone(x, y, width, height, photos) for the
\* photo at `index` of the photos without date
drawNoDateZone(photo, index, x, y, width, o, H, dragging, dragged) ==
    LET cols == (width - Gap * 2) \div (PhotoSize + Gap)
        col == index % cols
        row == index \div cols
        photoX == Div(Num(2 * (x + Gap + col * (PhotoSize + Gap)) + PhotoSize), Num(2))
        photoY == Div(Num(2 * (y + 50 + row * (PhotoSize + Gap)) + PhotoSize), Num(2))
        p1 == IF Falsy(photo.timelineX) \/ Falsy(photo.timelineY)
              THEN [photo EXCEPT !.timelineX = photoX, !.timelineY = photoY]
              ELSE photo
    IN  drawPhoto(p1, o, H, dragging, dragged)

renderHorizontalTimeline(ps, W, H, year, dragging, dragged) ==
    [i \in DOMAIN ps |->
        IF WithDate(ps[i])
        THEN HorizontalDated(ps[i], W, H, year, dragging, dragged)
        ELSE drawNoDateZone(ps[i], IndexWithoutDate(ps, i), Padding, 50, 200,
                            "horizontal", H, dragging, dragged)]

renderVerticalTimeline(ps, W, H, year, dragging, dragged) ==
    [i \in DOMAIN ps |->
        IF WithDate(ps[i])
        THEN VerticalDated(ps[i], W, H, year, dragging, dragged)
        ELSE drawNoDateZone(ps[i], IndexWithoutDate(ps, i), 50, Padding, 150,
                            "vertical", H, dragging, dragged)]

\* state.photos after renderTimeline()
renderTimeline(ps, o, W, H, year, dragging, dragged) ==
    IF o = "horizontal"
    THEN renderHorizontalTimeline(ps, W, H, year, dragging, dragged)
    ELSE renderVerticalTimeline(ps, W, H, year, dragging, dragged)

(***************************************************************************)
(* The handlers of the engine.  A handler is a function from the engine's   *)
(* state to the engine's state; an event runs the handlers registered for   *)
(* it in registration order, and the action commits the result.            *)
(***************************************************************************)
\* the state the engine's handlers read and write
Cur ==
    [canvasWidth |-> canvasWidth, canvasHeight |-> canvasHeight,
     isDrawing |-> isDrawing, isDraggingPhoto |-> isDraggingPhoto,
     draggedPhoto |-> draggedPhoto, hoveredPhoto |-> hoveredPhoto,
     zoomLevel |-> zoomLevel, panX |-> panX, panY |-> panY,
     isPanning |-> isPanning, panStart |-> panStart, spacePressed |-> spacePressed,
     photos |-> photos, selectedYear |-> selectedYear, orientation |-> orientation,
     isDrawingMode |-> isDrawingMode, curvePoints |-> curvePoints,
     frame |-> frame, userSet |-> userSet]

Commit(s) ==
    /\ canvasWidth' = s.canvasWidth
    /\ canvasHeight' = s.canvasHeight
    /\ isDrawing' = s.isDrawing
    /\ isDraggingPhoto' = s.isDraggingPhoto
    /\ draggedPhoto' = s.draggedPhoto
    /\ hoveredPhoto' = s.hoveredPhoto
    /\ zoomLevel' = s.zoomLevel
    /\ panX' = s.panX
    /\ panY' = s.panY
    /\ isPanning' = s.isPanning
    /\ panStart' = s.panStart
    /\ spacePressed' = s.spacePressed
    /\ photos' = s.photos
    /\ selectedYear' = s.selectedYear
    /\ orientation' = s.orientation
    /\ isDrawingMode' = s.isDrawingMode
    /\ curvePoints' = s.curvePoints
    /\ frame' = s.frame
    /\ userSet' = s.userSet

\* drawPhoto's default size, and the size it paints photo p with
DrawSize == 60
SizeOf(p) == IF WithDate(p) THEN DrawSize ELSE PhotoSize

\* the image of photo `id` painted centred at (x, y) with side `size` under
\* the transform translate(px, py) scale(z, z): where it is on the canvas
PaintAt(id, x, y, size, z, px, py) ==
    [id |-> id, x |-> Add(Mul(x, z), px), y |-> Add(Mul(y, z), py),
     size |-> Mul(Num(size), z)]

\* what one render pass paints of the photos ps, laid out by that pass:
\* drawPhoto paints the images that are complete, inside the transform
Frame(ps, z, px, py) ==
    {PaintAt(ps[i].id, ps[i].timelineX, ps[i].timelineY, SizeOf(ps[i]), z, px, py) :
        i \in {j \in DOMAIN ps : ps[j].cachedImage = "complete"}}

\* what the closure left in img.onload paints when it runs: the image at the
\* x and y it was created with, under the transform of the context at that
\* time, which renderTimeline has restored to the identity
LatePaint(p) == PaintAt(p.id, p.onloadX, p.onloadY, SizeOf(p), Num(1), Num(0), Num(0))

\* renderTimeline() in engine state s: clears the canvas and paints
Render(s) ==
    LET ps == renderTimeline(s.photos, s.orientation, s.canvasWidth,
                             s.canvasHeight, s.selectedYear,
                             s.isDraggingPhoto, s.draggedPhoto)
    IN  [s EXCEPT !.photos = ps,
                  !.frame = Frame(ps, s.zoomLevel, s.panX, s.panY)]

\* updateCanvasSize() with container width w (rect.width || 1200)
updateCanvasSize(s, w) ==
    IF s.orientation = "horizontal"
    THEN [s EXCEPT !.canvasWidth = IF w = 0 THEN 1200 ELSE w, !.canvasHeight = 600,
                   !.frame = {}]
    ELSE [s EXCEPT !.canvasWidth = 800, !.canvasHeight = 1000, !.frame = {}]

HalfSize == 30

\* findPhotoAtPosition(x, y): the id of the first photo hit, or NoPhoto
findPhotoAtPosition(ps, x, y) ==
    LET Hit(i) == /\ ~Falsy(ps[i].timelineX)
                  /\ ~Falsy(ps[i].timelineY)
                  /\ Le(AbsNum(Sub(x, ps[i].timelineX)), Num(HalfSize))
                  /\ Le(AbsNum(Sub(y, ps[i].timelineY)), Num(HalfSize))
    IN  IF \E i \in DOMAIN ps : Hit(i)
        THEN ps[CHOOSE i \in DOMAIN ps : Hit(i) /\ \A j \in 1..(i - 1) : ~Hit(j)].id
        ELSE NoPhoto

\* (mouse - pan) / zoomLevel
ToContentX(s, mx) == Div(Sub(Num(mx), s.panX), s.zoomLevel)
ToContentY(s, my) == Div(Sub(Num(my), s.panY), s.zoomLevel)

startDrawing(s, mx, my) ==
    [s EXCEPT !.isDrawing = TRUE,
              !.curvePoints = Append(@, [x |-> Num(mx), y |-> Num(my)])]

\* draw that keeps one point per stroke: it overwrites the last point
drawOverLast(s, mx, my) ==
    IF ~s.isDrawing THEN s
    ELSE Render([s EXCEPT !.curvePoints =
                    Append(SubSeq(@, 1, Len(@) - 1), [x |-> Num(mx), y |-> Num(my)])])

draw(s, mx, my) ==
    IF ~s.isDrawing THEN s
    ELSE Render([s EXCEPT !.curvePoints = Append(@, [x |-> Num(mx), y |-> Num(my)])])

stopDrawing(s) == [s EXCEPT !.isDrawing = FALSE]

handleCanvasMouseDown(s, mx, my) ==
    IF s.spacePressed
    THEN [s EXCEPT !.isPanning = TRUE, !.panStart = [x |-> Num(mx), y |-> Num(my)]]
    ELSE LET photo == findPhotoAtPosition(s.photos, ToContentX(s, mx), ToContentY(s, my))
             i == IndexOf(s.photos, photo)
         IN  IF photo # NoPhoto
             THEN [s EXCEPT !.isDraggingPhoto = TRUE, !.draggedPhoto = photo,
                            !.userSet[photo] =
                                IF @.startX = Undefined
                                THEN [@ EXCEPT !.startX = s.photos[i].timelineX,
                                               !.startY = s.photos[i].timelineY]
                                ELSE @]
             ELSE IF s.isDrawingMode THEN startDrawing(s, mx, my)
             ELSE s

\* the dragged photo after the axis-constrained move to content point (cx, cy)
DragTo(photo, o, cx, cy) ==
    LET p1 == IF Falsy(photo.originalX)
              THEN [photo EXCEPT !.originalX = photo.timelineX] ELSE photo
        p2 == IF Falsy(p1.originalY)
              THEN [p1 EXCEPT !.originalY = p1.timelineY] ELSE p1
    IN  IF o = "horizontal"
        THEN [p2 EXCEPT !.timelineX = OrElse(p2.originalX, p2.timelineX),
                        !.timelineY = cy]
        ELSE [p2 EXCEPT !.timelineX = cx,
                        !.timelineY = OrElse(p2.originalY, p2.timelineY)]

handleCanvasMouseMove(s, mx, my) ==
    IF s.isDrawingMode /\ s.isDrawing THEN s
    ELSE IF s.spacePressed /\ s.isPanning
    THEN Render([s EXCEPT !.panX = Add(@, Sub(Num(mx), s.panStart.x)),
                          !.panY = Add(@, Sub(Num(my), s.panStart.y)),
                          !.panStart = [x |-> Num(mx), y |-> Num(my)]])
    ELSE LET cx == ToContentX(s, mx)
             cy == ToContentY(s, my)
             i == IndexOf(s.photos, s.draggedPhoto)
         IN  IF s.isDraggingPhoto /\ s.draggedPhoto # NoPhoto
             THEN \* a dragged photo no longer in state.photos is moved all the
                  \* same, to no visible effect
                  IF i = 0 THEN Render(s)
                  ELSE Render([s EXCEPT
                         !.photos[i] = DragTo(@, s.orientation, cx, cy),
                         !.userSet[s.draggedPhoto][s.orientation] =
                             IF s.orientation = "horizontal" THEN cy ELSE cx])
             ELSE LET h == findPhotoAtPosition(s.photos, cx, cy)
                  IN  IF h # s.hoveredPhoto
                      THEN Render([s EXCEPT !.hoveredPhoto = h])
                      ELSE s

\* delete photo.originalX; delete photo.originalY
ClearOriginal(photo) == [photo EXCEPT !.originalX = Undefined, !.originalY = Undefined]

handleCanvasMouseUp(s) ==
    LET s1 == IF s.isPanning THEN [s EXCEPT !.isPanning = FALSE] ELSE s
        i == IndexOf(s1.photos, s1.draggedPhoto)
    IN  IF s1.isDraggingPhoto
        THEN [s1 EXCEPT !.isDraggingPhoto = FALSE,
                        !.photos = IF i = 0 THEN @
                                   ELSE [@ EXCEPT ![i] = ClearOriginal(@)],
                        !.draggedPhoto = NoPhoto]
        ELSE s1

handleCanvasMouseLeave(s) ==
    IF s.hoveredPhoto # NoPhoto THEN Render([s EXCEPT !.hoveredPhoto = NoPhoto]) ELSE s

\* handleZoom without its range check
handleZoomUnchecked(s, mx, my, deltaY) ==
    LET delta == IF deltaY > 0 THEN -1 ELSE 1
        newZoom == Add(s.zoomLevel, Rat(delta, 10))
        zoomPointX == Div(Sub(Num(mx), s.panX), s.zoomLevel)
        zoomPointY == Div(Sub(Num(my), s.panY), s.zoomLevel)
    IN  Render([s EXCEPT !.panX = Sub(Num(mx), Mul(zoomPointX, newZoom)),
                         !.panY = Sub(Num(my), Mul(zoomPointY, newZoom)),
                         !.zoomLevel = newZoom])

\* handleZoom without its adjustment of the pan
handleZoomKeepPan(s, mx, my, deltaY) ==
    LET delta == IF deltaY > 0 THEN -1 ELSE 1
        newZoom == Add(s.zoomLevel, Rat(delta, 10))
    IN  IF Lt(newZoom, Rat(1, 2)) \/ Lt(Num(3), newZoom) THEN s
        ELSE Render([s EXCEPT !.zoomLevel = newZoom])

handleZoom(s, mx, my, deltaY) ==
    LET delta == IF deltaY > 0 THEN -1 ELSE 1
        newZoom == Add(s.zoomLevel, Rat(delta, 10))
        zoomPointX == Div(Sub(Num(mx), s.panX), s.zoomLevel)
        zoomPointY == Div(Sub(Num(my), s.panY), s.zoomLevel)
    IN  IF Lt(newZoom, Rat(1, 2)) \/ Lt(Num(3), newZoom) THEN s
        ELSE Render([s EXCEPT !.panX = Sub(Num(mx), Mul(zoomPointX, newZoom)),
                              !.panY = Sub(Num(my), Mul(zoomPointY, newZoom)),
                              !.zoomLevel = newZoom])

PanSpeed == 20

handleKeyDown(s, code) ==
    LET s1 == IF code = "Space" /\ ~s.spacePressed
              THEN [s EXCEPT !.spacePressed = TRUE] ELSE s
        s2 == CASE code = "ArrowLeft" -> Render([s1 EXCEPT !.panX = Add(@, Num(PanSpeed))])
                [] code = "ArrowRight" -> Render([s1 EXCEPT !.panX = Sub(@, Num(PanSpeed))])
                [] code = "ArrowUp" -> Render([s1 EXCEPT !.panY = Add(@, Num(PanSpeed))])
                [] code = "ArrowDown" -> Render([s1 EXCEPT !.panY = Sub(@, Num(PanSpeed))])
                [] OTHER -> s1
    IN  IF code \in {"Digit0", "Numpad0"}
        THEN Render([s2 EXCEPT !.zoomLevel = Num(1), !.panX = Num(0), !.panY = Num(0)])
        ELSE s2

handleKeyUp(s, code) ==
    IF code = "Space" THEN [s EXCEPT !.spacePressed = FALSE] ELSE s

(***************************************************************************)
(* Events on the canvas.  The canvas handlers are registered by             *)
(* initializeTimeline, the drawing listeners later by enableDrawing, so a   *)
(* canvas handler always runs before the drawing listener of the same       *)
(* event.                                                                  *)
(***************************************************************************)
\* the canvas receives pointer events while the timeline section is shown
CanvasLive == section = "timeline" /\ canvasListeners

\* the listeners of 'mousedown', in order
DispatchMouseDown(s, mx, my) ==
    LET s1 == handleCanvasMouseDown(s, mx, my)
    IN  IF drawListeners THEN startDrawing(s1, mx, my) ELSE s1

\* the listeners of 'mousemove', in order
DispatchMouseMove(s, mx, my) ==
    LET s1 == handleCanvasMouseMove(s, mx, my)
    IN  IF drawListeners THEN draw(s1, mx, my) ELSE s1

\* the listeners of 'mouseup', in order
DispatchMouseUp(s) ==
    LET s1 == handleCanvasMouseUp(s)
    IN  IF drawListeners THEN stopDrawing(s1) ELSE s1

\* the listeners of 'mouseleave', in order
DispatchMouseLeave(s) ==
    LET s1 == handleCanvasMouseLeave(s)
    IN  IF drawListeners THEN stopDrawing(s1) ELSE s1

\* the photo under a press at (mx, my), when the press is not a pan start
PressedOn(mx, my) ==
    IF spacePressed THEN NoPhoto
    ELSE findPhotoAtPosition(photos, ToContentX(Cur, mx), ToContentY(Cur, my))

MouseDown(mx, my) ==
    /\ CanvasLive /\ pointerInside /\ ~buttonDown
    /\ Commit(DispatchMouseDown(Cur, mx, my))
    /\ buttonDown' = TRUE
    /\ press' = [x |-> mx, y |-> my, hit |-> PressedOn(mx, my),
                 upX |-> mx, upY |-> my, elapsed |-> 0, released |-> FALSE]
    /\ UNCHANGED <<shellVars, pointerInside, touching>>

MouseMove(mx, my) ==
    /\ CanvasLive
    /\ Commit(DispatchMouseMove(Cur, mx, my))
    /\ pointerInside' = TRUE
    /\ UNCHANGED <<shellVars, buttonDown, touching, press>>

\* the button is released over the canvas, t ms after it went down
MouseUp(mx, my, t) ==
    /\ CanvasLive /\ pointerInside /\ buttonDown
    /\ Commit(DispatchMouseUp(Cur))
    /\ buttonDown' = FALSE
    /\ press' = [press EXCEPT !.upX = mx, !.upY = my, !.elapsed = t, !.released = TRUE]
    /\ UNCHANGED <<shellVars, pointerInside, touching>>

MouseLeave ==
    /\ CanvasLive /\ pointerInside
    /\ Commit(DispatchMouseLeave(Cur))
    /\ pointerInside' = FALSE
    /\ UNCHANGED <<shellVars, buttonDown, touching, press>>

\* the button is released outside the canvas: no listener of the canvas runs
ReleaseOutside ==
    /\ ~pointerInside /\ buttonDown
    /\ buttonDown' = FALSE
    /\ UNCHANGED <<engineVars, stateVars, shellVars, userSet, pointerInside, touching, press>>

\* handleTouchStart: dispatches a synthetic 'mousedown' to the canvas
TouchStart(mx, my) ==
    /\ CanvasLive /\ drawListeners /\ ~touching
    /\ Commit(DispatchMouseDown(Cur, mx, my))
    /\ touching' = TRUE
    /\ UNCHANGED <<shellVars, buttonDown, pointerInside, press>>

\* handleTouchMove: dispatches a synthetic 'mousemove' to the canvas
TouchMove(mx, my) ==
    /\ CanvasLive /\ drawListeners /\ touching
    /\ Commit(DispatchMouseMove(Cur, mx, my))
    /\ UNCHANGED <<shellVars, envVars>>

\* 'touchend' runs stopDrawing; without the drawing listeners nothing runs
TouchEnd ==
    /\ CanvasLive /\ touching
    /\ Commit(IF drawListeners THEN stopDrawing(Cur) ELSE Cur)
    /\ touching' = FALSE
    /\ UNCHANGED <<shellVars, buttonDown, pointerInside, press>>

Wheel(mx, my, deltaY) ==
    /\ CanvasLive
    /\ Commit(handleZoom(Cur, mx, my, deltaY))
    /\ UNCHANGED <<shellVars, envVars>>

\* the key handlers are on window: they run whatever section is shown
KeyDown(code) ==
    /\ canvasListeners
    /\ Commit(handleKeyDown(Cur, code))
    /\ UNCHANGED <<shellVars, envVars>>

KeyUp(code) ==
    /\ canvasListeners
    /\ Commit(handleKeyUp(Cur, code))
    /\ UNCHANGED <<shellVars, envVars>>

\* window 'resize' with the container now w wide
Resize(w) ==
    /\ canvasListeners
    /\ Commit(Render(updateCanvasSize(Cur, w)))
    /\ UNCHANGED <<shellVars, envVars>>

(***************************************************************************)
(* The application shell                                                   *)
(***************************************************************************)
\* the timeline section's controls are clicked with the pointer: the section
\* is shown and no button or finger is held on the canvas
TimelineShown == section = "timeline" /\ canvasListeners /\ ~buttonDown /\ ~touching

\* zoomSlider 'input' with the slider moved to v percent
ZoomSliderInput(v) ==
    /\ TimelineShown
    /\ zoomSlider' = v
    /\ zoomValue' = v
    /\ Commit(Render([Cur EXCEPT !.zoomLevel = Rat(v, 100)]))
    /\ UNCHANGED <<currentModalPhotoId, section, canvasListeners, drawListeners,
                   pendingExports, nextId, detached, envVars>>

Min(a, b) == IF a < b THEN a ELSE b
Max(a, b) == IF a > b THEN a ELSE b

ZoomInBtn ==
    /\ TimelineShown
    /\ LET newValue == Min(300, zoomSlider + 10)
       IN  /\ zoomSlider' = newValue
           /\ zoomValue' = newValue
           /\ Commit(Render([Cur EXCEPT !.zoomLevel = Rat(newValue, 100)]))
    /\ UNCHANGED <<currentModalPhotoId, section, canvasListeners, drawListeners,
                   pendingExports, nextId, detached, envVars>>

ZoomOutBtn ==
    /\ TimelineShown
    /\ LET newValue == Max(50, zoomSlider - 10)
       IN  /\ zoomSlider' = newValue
           /\ zoomValue' = newValue
           /\ Commit(Render([Cur EXCEPT !.zoomLevel = Rat(newValue, 100)]))
    /\ UNCHANGED <<currentModalPhotoId, section, canvasListeners, drawListeners,
                   pendingExports, nextId, detached, envVars>>

\* exportButton 'click': save the viewport, paint at identity, start the timer
ExportClick ==
    /\ TimelineShown
    /\ pendingExports' = Append(pendingExports,
           [savedZoom |-> zoomLevel, savedPanX |-> panX, savedPanY |-> panY,
            stage |-> "timer"])
    /\ Commit(Render([Cur EXCEPT !.zoomLevel = Num(1), !.panX = Num(0), !.panY = Num(0)]))
    /\ UNCHANGED <<currentModalPhotoId, zoomSlider, zoomValue, section, canvasListeners,
                   drawListeners, nextId, detached, envVars>>

\* the setTimeout callback of the oldest export: copy the canvas, start toBlob
ExportCapture ==
    /\ \E i \in DOMAIN pendingExports :
          /\ pendingExports[i].stage = "timer"
          /\ \A j \in 1..(i - 1) : pendingExports[j].stage # "timer"
          /\ pendingExports' = [pendingExports EXCEPT ![i].stage = "blob"]
    /\ UNCHANGED <<engineVars, stateVars, userSet, currentModalPhotoId, zoomSlider,
                   zoomValue, section, canvasListeners, drawListeners, nextId, detached, envVars>>

\* the toBlob callback of the oldest export: download, restore the viewport
ExportDone ==
    /\ pendingExports # <<>>
    /\ pendingExports[1].stage = "blob"
    /\ LET e == pendingExports[1]
           zoomPercent == Round(Mul(e.savedZoom, Num(100)))
       IN  /\ Commit(Render([Cur EXCEPT !.zoomLevel = e.savedZoom,
                                        !.panX = e.savedPanX, !.panY = e.savedPanY]))
           /\ zoomSlider' = zoomPercent[1]
           /\ zoomValue' = zoomPercent[1]
    /\ pendingExports' = Tail(pendingExports)
    /\ UNCHANGED <<currentModalPhotoId, section, canvasListeners, drawListeners,
                   nextId, detached, envVars>>

\* a [data-orientation] button
OrientationToggle(o) ==
    /\ TimelineShown
    /\ Commit(Render([Cur EXCEPT !.orientation = o]))
    /\ UNCHANGED <<shellVars, envVars>>

\* drawModeButton: toggles the mode and enableDrawing() / disableDrawing()
DrawModeButton ==
    /\ TimelineShown
    /\ Commit([Cur EXCEPT !.isDrawingMode = ~isDrawingMode])
    /\ drawListeners' = ~isDrawingMode
    /\ UNCHANGED <<currentModalPhotoId, zoomSlider, zoomValue, section, canvasListeners,
                   pendingExports, nextId, detached, envVars>>

\* the curve control buttons are shown by the draw-mode button and hidden
\* with disableDrawing(): they are visible exactly while the listeners are on
FinishDrawingButton ==
    /\ TimelineShown /\ drawListeners
    /\ Commit([Cur EXCEPT !.isDrawingMode = FALSE])
    /\ drawListeners' = FALSE
    /\ UNCHANGED <<currentModalPhotoId, zoomSlider, zoomValue, section, canvasListeners,
                   pendingExports, nextId, detached, envVars>>

ClearCurveButton ==
    /\ TimelineShown /\ drawListeners
    /\ Commit(Render([Cur EXCEPT !.curvePoints = <<>>]))
    /\ UNCHANGED <<shellVars, envVars>>

\* the photos of ps that are not in kept and whose image is still decoding
\* with the closure of a skipped frame in img.onload
Orphans(ps, kept) ==
    {ps[i] : i \in {j \in DOMAIN ps : /\ IndexOf(kept, ps[j].id) = 0
                                      /\ ps[j].cachedImage = "loading"
                                      /\ ps[j].onload}}

\* resetButton, confirmed
ResetButton ==
    /\ TimelineShown
    /\ Commit([Cur EXCEPT !.photos = <<>>, !.selectedYear = NullYear,
                          !.orientation = "horizontal", !.isDrawingMode = FALSE,
                          !.curvePoints = <<>>])
    /\ section' = "upload"
    /\ detached' = detached \cup Orphans(photos, <<>>)
    /\ UNCHANGED <<currentModalPhotoId, zoomSlider, zoomValue, canvasListeners,
                   drawListeners, pendingExports, nextId, envVars>>

BackToPhotosButton ==
    /\ TimelineShown
    /\ section' = "upload"
    /\ UNCHANGED <<engineVars, stateVars, userSet, currentModalPhotoId, zoomSlider,
                   zoomValue, canvasListeners, drawListeners, pendingExports, nextId, detached,
                   envVars>>

\* an image decode completes: img.onload, if set, runs drawImageContent
ImageLoad(i) ==
    /\ i \in DOMAIN photos
    /\ photos[i].cachedImage = "loading"
    /\ LET p1 == [photos[i] EXCEPT !.cachedImage = "complete"]
           p2 == IF p1.onload
                 THEN drawImageContent(p1, orientation, canvasHeight,
                                       isDraggingPhoto, draggedPhoto)
                 ELSE p1
       IN  /\ photos' = [photos EXCEPT ![i] = p2]
           /\ frame' = IF p1.onload THEN frame \cup {LatePaint(p1)} ELSE frame
    /\ UNCHANGED <<canvasWidth, canvasHeight, isDrawing, isDraggingPhoto, draggedPhoto,
                   hoveredPhoto, zoomLevel, panX, panY, isPanning, panStart,
                   spacePressed, selectedYear, orientation, isDrawingMode, curvePoints,
                   userSet, shellVars, envVars>>

\* the image of a photo object that has left state.photos completes: the
\* closure in its img.onload runs all the same
DetachedImageLoad(p) ==
    /\ p \in detached
    /\ detached' = detached \ {p}
    /\ frame' = frame \cup {LatePaint(p)}
    /\ UNCHANGED <<canvasWidth, canvasHeight, isDrawing, isDraggingPhoto, draggedPhoto,
                   hoveredPhoto, zoomLevel, panX, panY, isPanning, panStart,
                   spacePressed, stateVars, userSet, currentModalPhotoId, zoomSlider,
                   zoomValue, section, canvasListeners, drawListeners, pendingExports,
                   nextId, envVars>>

(***************************************************************************)
(* Ingestion.  A file is [exif, exifDate, lastModified]: exif says what     *)
(* exifr.parse(file) did: "throws", "undefined" (no EXIF block), "noDate"   *)
(* (an EXIF object with none of the three date fields) or "date" (one of    *)
(* the fields is present and holds exifDate).                              *)
(***************************************************************************)
\* the object extractPhotoData(file) resolves to, with the given id
extractPhotoData(file, id) ==
    LET exifCaptureDate == IF file.exif = "date" THEN file.exifDate ELSE InvalidDate
        hasDate == file.exif = "date"
        \* if (!captureDate) captureDate = new Date(file.lastModified)
        captureDate == IF hasDate THEN exifCaptureDate ELSE file.lastModified
        \* exifData && (DateTimeOriginal || DateTime || CreateDate)
        hasValidDate == CASE file.exif = "throws" -> "null"
                          [] file.exif = "undefined" -> "undefined"
                          [] file.exif = "noDate" -> "undefined"
                          [] OTHER -> "date"
        \* exifData keeps its initial null when exifr.parse throws
        exifData == IF file.exif = "throws" THEN "null" ELSE file.exif
    IN  MkPhoto(id, exifData, hasValidDate, captureDate)

\* processFiles for one file: extractPhotoData(file) resolves and the photo
\* is pushed.  The file was picked in the upload section; the promise
\* resolves whenever the parsing is done, whatever section is shown then
ProcessFile(file) ==
    /\ photos' = Append(photos, extractPhotoData(file, nextId))
    /\ nextId' = nextId + 1
    /\ UNCHANGED <<engineVars, selectedYear, orientation, isDrawingMode, curvePoints,
                   userSet, currentModalPhotoId, zoomSlider, zoomValue, section,
                   canvasListeners, drawListeners, pendingExports, detached, envVars>>

\* removePhoto(photoId), from the grid of the upload section
RemovePhoto(id) ==
    /\ section = "upload"
    /\ \E i \in DOMAIN photos : photos[i].id = id
    /\ photos' = SelectSeq(photos, LAMBDA p : p.id # id)
    /\ detached' = detached \cup Orphans(photos, SelectSeq(photos, LAMBDA p : p.id # id))
    /\ UNCHANGED <<engineVars, selectedYear, orientation, isDrawingMode, curvePoints,
                   userSet, currentModalPhotoId, zoomSlider, zoomValue, section,
                   canvasListeners, drawListeners, pendingExports, nextId, envVars>>

\* showPhotoModal(photoId), from a click on a grid image
GridImageClick(id) ==
    /\ section = "upload"
    /\ \E i \in DOMAIN photos : photos[i].id = id
    /\ currentModalPhotoId' = id
    /\ UNCHANGED <<engineVars, stateVars, userSet, zoomSlider, zoomValue, section,
                   canvasListeners, drawListeners, pendingExports, nextId, detached, envVars>>

closePhotoModal ==
    /\ currentModalPhotoId # NoPhoto
    /\ currentModalPhotoId' = NoPhoto
    /\ UNCHANGED <<engineVars, stateVars, userSet, zoomSlider, zoomValue, section,
                   canvasListeners, drawListeners, pendingExports, nextId, detached, envVars>>

\* photo.captureDate.getFullYear() as a key of yearCounts: the key "NaN" of
\* an invalid Date is listed after every integer key
NaNKey == 10000
YearKey(p) == IF p.captureDate.valid THEN p.captureDate.year ELSE NaNKey

\* the years of the photos, and how many photos each has
YearsOf(ps) == {YearKey(ps[i]) : i \in DOMAIN ps}
YearCount(ps, y) == Cardinality({i \in DOMAIN ps : YearKey(ps[i]) = y})

\* Object.keys(yearCounts) lists the years in ascending order, and the
\* reduce keeps a only when its count is strictly greater: among the years
\* of maximal count the last one wins
mostCommonYear(ps) ==
    CHOOSE y \in YearsOf(ps) :
        /\ \A z \in YearsOf(ps) : YearCount(ps, z) <= YearCount(ps, y)
        /\ \A z \in YearsOf(ps) : YearCount(ps, z) = YearCount(ps, y) => z <= y

\* the createTimelineButton handler on engine state s, container width w;
\* initializeTimeline() does not touch zoomLevel, panX, panY or the flags
createTimeline(s, w) ==
    LET key == mostCommonYear(s.photos)
        \* parseInt("NaN") is NaN, and NaN === NaN is false
        year == IF key = NaNKey THEN NaNYear ELSE key
        kept == SelectSeq(s.photos,
                    LAMBDA p : p.captureDate.valid /\ p.captureDate.year = year)
        s1 == [s EXCEPT !.selectedYear = year, !.photos = kept]
    IN  Render(updateCanvasSize(s1, w))

CreateTimelineButton(w) ==
    /\ section = "upload"
    /\ photos # <<>>
    /\ Commit(createTimeline(Cur, w))
    /\ section' = "timeline"
    /\ zoomSlider' = 100
    /\ zoomValue' = 100
    /\ canvasListeners' = TRUE
    /\ detached' = detached \cup Orphans(photos, createTimeline(Cur, w).photos)
    /\ UNCHANGED <<currentModalPhotoId, drawListeners, pendingExports, nextId, envVars>>

(***************************************************************************)
(* Initial states                                                          *)
(***************************************************************************)
MaxPhotos == 2
PhotoIds == 1..(MaxPhotos + 1)

NeverSet ==
    [id \in PhotoIds |-> [horizontal |-> Undefined, vertical |-> Undefined,
                          startX |-> Undefined, startY |-> Undefined]]

NoPress == [x |-> 0, y |-> 0, hit |-> NoPhoto, upX |-> 0, upY |-> 0,
            elapsed |-> 0, released |-> FALSE]

\* the engine as the script leaves it when the page has loaded; canvasWidth
\* and canvasHeight are undefined until updateCanvasSize() (0 stands for it)
Loaded ==
    [canvasWidth |-> 0, canvasHeight |-> 0,
     isDrawing |-> FALSE, isDraggingPhoto |-> FALSE,
     draggedPhoto |-> NoPhoto, hoveredPhoto |-> NoPhoto,
     zoomLevel |-> Num(1), panX |-> Num(0), panY |-> Num(0),
     isPanning |-> FALSE, panStart |-> [x |-> Num(0), y |-> Num(0)],
     spacePressed |-> FALSE,
     photos |-> <<>>, selectedYear |-> NullYear, orientation |-> "horizontal",
     isDrawingMode |-> FALSE, curvePoints |-> <<>>,
     frame |-> {}, userSet |-> NeverSet]

\* the engine is in state s
Holds(s) ==
    /\ canvasWidth = s.canvasWidth
    /\ canvasHeight = s.canvasHeight
    /\ isDrawing = s.isDrawing
    /\ isDraggingPhoto = s.isDraggingPhoto
    /\ draggedPhoto = s.draggedPhoto
    /\ hoveredPhoto = s.hoveredPhoto
    /\ zoomLevel = s.zoomLevel
    /\ panX = s.panX
    /\ panY = s.panY
    /\ isPanning = s.isPanning
    /\ panStart = s.panStart
    /\ spacePressed = s.spacePressed
    /\ photos = s.photos
    /\ selectedYear = s.selectedYear
    /\ orientation = s.orientation
    /\ isDrawingMode = s.isDrawingMode
    /\ curvePoints = s.curvePoints
    /\ frame = s.frame
    /\ userSet = s.userSet

\* the page has loaded: the upload section is shown, nothing is ingested
InitUpload ==
    /\ Holds(Loaded)
    /\ currentModalPhotoId = NoPhoto
    /\ zoomSlider = 100
    /\ zoomValue = 100
    /\ section = "upload"
    /\ canvasListeners = FALSE
    /\ drawListeners = FALSE
    /\ pendingExports = <<>>
    /\ nextId = 1
    /\ detached = {}
    /\ buttonDown = FALSE
    /\ pointerInside = FALSE
    /\ touching = FALSE
    /\ press = NoPress
    /\ steps = 0

\* the items ps have been ingested and create-timeline has been clicked with
\* the container w wide; the pointer has been moved over the canvas
InitTimeline(ps, w) ==
    /\ Holds(createTimeline([Loaded EXCEPT !.photos = ps], w))
    /\ currentModalPhotoId = NoPhoto
    /\ zoomSlider = 100
    /\ zoomValue = 100
    /\ section = "timeline"
    /\ canvasListeners = TRUE
    /\ drawListeners = FALSE
    /\ pendingExports = <<>>
    /\ nextId = Len(ps) + 1
    /\ detached = {}
    /\ buttonDown = FALSE
    /\ pointerInside = TRUE
    /\ touching = FALSE
    /\ press = NoPress
    /\ steps = 0

(***************************************************************************)
(* The scene the interaction specifications start from: one dated photo     *)
(* (14 March 2023, day 73, laid out at x = 80 + 1040 * 73 / 365 = 288 on a   *)
(* 1200 x 600 canvas) and one item without date (first cell of the          *)
(* fallback grid, (115, 125)).                                              *)
(***************************************************************************)
DatedItem(id) == MkPhoto(id, "date", "date", MkDate(2023, 73, 12, 0))
UndatedItem(id) == MkPhoto(id, "noDate", "false", MkDate(2023, 200, 12, 0))

SceneItems == <<DatedItem(1), UndatedItem(2)>>

(***************************************************************************)
(* SpecPointer: pointer, touch and key events and the draw-mode buttons     *)
(***************************************************************************)
MaxPointerSteps == 5

\* on the dated photo; 2.2 px away, still on it; on empty canvas
PointerPoints == {<<288, 300>>, <<290, 301>>, <<600, 450>>}
\* ms between press and release
Elapsed == {100, 300}

InitPointer == InitTimeline(SceneItems, 0)

\* one more event, while the bound allows
TickPointer == steps < MaxPointerSteps /\ steps' = steps + 1

NextPointer ==
    \/ \E pt \in PointerPoints : TickPointer /\ MouseDown(pt[1], pt[2])
    \/ \E pt \in PointerPoints : TickPointer /\ MouseMove(pt[1], pt[2])
    \/ \E pt \in PointerPoints, t \in Elapsed : TickPointer /\ MouseUp(pt[1], pt[2], t)
    \/ TickPointer /\ MouseLeave
    \/ TickPointer /\ ReleaseOutside
    \/ \E pt \in PointerPoints : TickPointer /\ TouchStart(pt[1], pt[2])
    \/ \E pt \in PointerPoints : TickPointer /\ TouchMove(pt[1], pt[2])
    \/ TickPointer /\ TouchEnd
    \/ TickPointer /\ KeyDown("Space")
    \/ TickPointer /\ KeyUp("Space")
    \/ TickPointer /\ DrawModeButton
    \/ TickPointer /\ FinishDrawingButton

SpecPointer == InitPointer /\ [][NextPointer]_vars

\* C1: at most one of isPanning, isDraggingPhoto and isDrawing is true in
\* every reachable state
C1_AtMostOneActive ==
    Cardinality({f \in {"pan", "drag", "draw"} :
                    \/ f = "pan" /\ isPanning
                    \/ f = "drag" /\ isDraggingPhoto
                    \/ f = "draw" /\ isDrawing}) <= 1

\* the button is released over the canvas in this step
ReleasedOnCanvas == CanvasLive /\ pointerInside /\ buttonDown /\ ~buttonDown'

\* the press/release pair just completed is a click: under 300 ms, under 5 px
QuickAndNear(pr) ==
    /\ pr.elapsed < 300
    /\ (pr.upX - pr.x) * (pr.upX - pr.x) + (pr.upY - pr.y) * (pr.upY - pr.y) < 5 * 5

\* C2: a press/release pair on an item under 300 ms and under 5 px opens the
\* item's detail view (showPhotoModal(item) sets currentModalPhotoId); a pair
\* of 300 ms or more, or of 5 px or more, opens nothing
C2_ClickOpensDetail ==
    [][(ReleasedOnCanvas /\ press.hit # NoPhoto) =>
          IF QuickAndNear(press')
          THEN currentModalPhotoId' = press.hit
          ELSE currentModalPhotoId' = currentModalPhotoId]_vars

\* C19: while a pan is in progress every pointer-move adds (cursor - pan
\* anchor) to the pan and makes the cursor the new anchor, with the space key
\* held or released, and no step but a pointer-up ends the pan
C19_PanUntilPointerUp ==
    [][/\ \A pt \in PointerPoints :
             (TickPointer /\ isPanning /\ MouseMove(pt[1], pt[2])) =>
                /\ panX' = Add(panX, Sub(Num(pt[1]), panStart.x))
                /\ panY' = Add(panY, Sub(Num(pt[2]), panStart.y))
                /\ panStart' = [x |-> Num(pt[1]), y |-> Num(pt[2])]
       /\ (isPanning /\ buttonDown') => isPanning']_vars

\* C20: a pointer-up while a stroke, begun by a press on no photo, is being
\* drawn leaves the controller drawing
C20_PointerUpKeepsDrawing ==
    [][\A pt \in PointerPoints, t \in Elapsed :
          (TickPointer /\ isDrawing /\ press.hit = NoPhoto /\ MouseUp(pt[1], pt[2], t))
             => isDrawing']_vars

\* the places of the items
Places(ps) == [i \in DOMAIN ps |-> <<ps[i].timelineX, ps[i].timelineY>>]

\* C35: when the mouse button is released, over the canvas or outside it,
\* or the finger is lifted, no drag and no pan stays in progress; and a
\* pointer-move with no button held and no finger down moves neither an item
\* nor the viewport
C35_ReleaseEndsDragAndPan ==
    [][/\ ((buttonDown /\ ~buttonDown') \/ (touching /\ ~touching')) =>
              ~isDraggingPhoto' /\ ~isPanning'
       /\ \A pt \in PointerPoints :
             (TickPointer /\ ~buttonDown /\ ~touching /\ MouseMove(pt[1], pt[2])) =>
                 /\ Places(photos') = Places(photos)
                 /\ <<panX', panY'>> = <<panX, panY>>]_vars

\* the two halves of C35, apart
C35_AtRelease ==
    [][((buttonDown /\ ~buttonDown') \/ (touching /\ ~touching')) =>
          ~isDraggingPhoto' /\ ~isPanning']_vars
C35_MoveAfterRelease ==
    [][\A pt \in PointerPoints :
          (TickPointer /\ ~buttonDown /\ ~touching /\ MouseMove(pt[1], pt[2])) =>
              /\ Places(photos') = Places(photos)
              /\ <<panX', panY'>> = <<panX, panY>>]_vars

(***************************************************************************)
(* SpecZoom: everything that changes the viewport                          *)
(***************************************************************************)
MaxZoomSteps == 4

\* the cursor at the canvas origin and at the centre of the canvas
WheelPoints == {<<0, 0>>, <<600, 300>>}
\* one notch away from the user, one towards, and a sideways scroll
WheelDeltas == {-100, 0, 100}
\* slider positions: both ends and one step-and-a-half below the top
SliderValues == {50, 295, 300}

InitZoom == InitTimeline(SceneItems, 0)

TickZoom == steps < MaxZoomSteps /\ steps' = steps + 1

NextZoom ==
    \/ \E pt \in WheelPoints, dy \in WheelDeltas : TickZoom /\ Wheel(pt[1], pt[2], dy)
    \/ \E v \in SliderValues : TickZoom /\ ZoomSliderInput(v)
    \/ TickZoom /\ ZoomInBtn
    \/ TickZoom /\ ZoomOutBtn
    \/ \E k \in {"Digit0", "ArrowLeft", "ArrowDown"} : TickZoom /\ KeyDown(k)
    \/ TickZoom /\ ExportClick
    \/ TickZoom /\ ExportCapture
    \/ TickZoom /\ ExportDone

SpecZoom == InitZoom /\ [][NextZoom]_vars

MinZoom == Rat(1, 2)
MaxZoom == Num(3)

\* C3: after any sequence of wheel events, zoom buttons, slider inputs
\* within 50..300, reset keys and exports, 0.5 <= zoomLevel <= 3.0
C3_ZoomInRange == Le(MinZoom, zoomLevel) /\ Le(zoomLevel, MaxZoom)

\* a wheel step has taken the zoom from 2.9 (set with the buttons) to the bound
C3_Witness ==
    /\ zoomLevel = MaxZoom
    /\ zoomSlider = 290

Clamp(z) == IF Lt(z, MinZoom) THEN MinZoom ELSE IF Lt(MaxZoom, z) THEN MaxZoom ELSE z

\* the zoom a wheel event with this deltaY asks for, before any limit
WheelTarget(dy) == Add(zoomLevel, Rat(IF dy > 0 THEN -1 ELSE 1, 10))

\* C4: a wheel step sets the zoom to its target clamped into [0.5, 3.0]; a
\* target outside the range moves the zoom to the nearer bound
C4_WheelClamps ==
    [][\A pt \in WheelPoints, dy \in WheelDeltas :
          (TickZoom /\ Wheel(pt[1], pt[2], dy)) => zoomLevel' = Clamp(WheelTarget(dy))]_vars

\* C5: a wheel step at cursor f that changes the zoom keeps the content
\* point under f: (f - pan) / zoom = (f - pan') / zoom'
C5_FocalPointFixed ==
    [][\A pt \in WheelPoints, dy \in WheelDeltas :
          (TickZoom /\ Wheel(pt[1], pt[2], dy) /\ zoomLevel' # zoomLevel) =>
             /\ Div(Sub(Num(pt[1]), panX), zoomLevel) = Div(Sub(Num(pt[1]), panX'), zoomLevel')
             /\ Div(Sub(Num(pt[2]), panY), zoomLevel) = Div(Sub(Num(pt[2]), panY'), zoomLevel')]_vars

\* a wheel step in at the centre of the canvas, from the identity viewport
C5_Witness ==
    /\ zoomLevel = Rat(11, 10)
    /\ panX = Num(-60)
    /\ panY = Num(-30)

\* C12: after every step that changes the zoom (wheel, reset key, zoom
\* buttons, slider, completion of an export), the slider value and the
\* percentage readout are round(zoomLevel * 100)
C12_SliderMirrorsZoom ==
    [][(zoomLevel' # zoomLevel /\ pendingExports' = <<>>)
       => /\ Num(zoomSlider') = Round(Mul(zoomLevel', Num(100)))
          /\ Num(zoomValue') = Round(Mul(zoomLevel', Num(100)))]_vars

\* sign(-deltaY)
NotchSign(dy) == IF dy < 0 THEN 1 ELSE IF dy > 0 THEN -1 ELSE 0

\* C32: a wheel event with deltaY < 0 adds 0.1 to the zoom and one with
\* deltaY > 0 takes 0.1 off, unless the bounds forbid it; one with
\* deltaY = 0 changes neither zoom nor pan
C32_WheelStepBySign ==
    [][\A pt \in WheelPoints, dy \in WheelDeltas :
          (TickZoom /\ Wheel(pt[1], pt[2], dy)) =>
              LET target == Add(zoomLevel, Rat(NotchSign(dy), 10))
              IN  IF dy = 0
                  THEN zoomLevel' = zoomLevel /\ panX' = panX /\ panY' = panY
                  ELSE IF Le(MinZoom, target) /\ Le(target, MaxZoom)
                  THEN zoomLevel' = target
                  ELSE zoomLevel' \in {zoomLevel, Clamp(target)}]_vars

\* C38: the zoom-in button never lowers zoomLevel and the zoom-out button
\* never raises it, whatever set the zoom before
C38_ButtonsAreMonotone ==
    [][/\ (TickZoom /\ ZoomInBtn) => Le(zoomLevel, zoomLevel')
       /\ (TickZoom /\ ZoomOutBtn) => Le(zoomLevel', zoomLevel)]_vars

\* zoomLevel, panX, panY
Viewport == <<zoomLevel, panX, panY>>
AtIdentity == <<Num(1), Num(0), Num(0)>>

\* C39: the canvas an export copies has been painted at the identity
\* viewport, and when the only export in flight completes, a viewport the
\* user has set since the export click is kept; if none was set, the
\* viewport saved at the click is restored
C39_ExportLeavesUserViewport ==
    [][/\ (TickZoom /\ ExportCapture) => Viewport = AtIdentity
       /\ (TickZoom /\ ExportDone /\ Len(pendingExports) = 1) =>
             LET e == pendingExports[1]
             IN  IF Viewport # AtIdentity THEN Viewport' = Viewport
                 ELSE Viewport' \in {AtIdentity, <<e.savedZoom, e.savedPanX, e.savedPanY>>}]_vars

\* the two halves of C39, apart
C39_AtCapture == [][(TickZoom /\ ExportCapture) => Viewport = AtIdentity]_vars
C39_AtDone ==
    [][(TickZoom /\ ExportDone /\ Len(pendingExports) = 1) =>
          (Viewport # AtIdentity => Viewport' = Viewport)]_vars

(***************************************************************************)
(* SpecScene: dragging items, layout passes, orientation toggles            *)
(***************************************************************************)
MaxSceneSteps == 5

\* on the dated photo; on the undated one; the top and left edges of the
\* canvas in line with them; the dated photo's place once laid out
\* vertically on the 1200 x 600 canvas; a point below the axis
ScenePoints == {<<288, 300>>, <<115, 125>>, <<115, 0>>, <<0, 125>>, <<288, 168>>,
                <<288, 450>>}
\* container widths at a window resize (0: rect.width is 0)
RectWidths == {0, 890}

InitScene == InitTimeline(SceneItems, 0)

TickScene == steps < MaxSceneSteps /\ steps' = steps + 1

NextScene ==
    \/ \E pt \in ScenePoints : TickScene /\ MouseDown(pt[1], pt[2])
    \/ \E pt \in ScenePoints : TickScene /\ MouseMove(pt[1], pt[2])
    \/ TickScene /\ MouseUp(press.x, press.y, 500)
    \/ \E o \in {"horizontal", "vertical"} : TickScene /\ OrientationToggle(o)
    \/ \E w \in RectWidths : TickScene /\ Resize(w)
    \/ \E i \in 1..MaxPhotos : TickScene /\ ImageLoad(i)
    \/ TickScene /\ ZoomSliderInput(50)
    \/ TickScene /\ KeyDown("ArrowDown")

SpecScene == InitScene /\ [][NextScene]_vars

\* the coordinate the layout derives from the date, and the other one
AuthCoord(p, o) == IF o = "horizontal" THEN p.timelineX ELSE p.timelineY
FreeCoord(p, o) == IF o = "horizontal" THEN p.timelineY ELSE p.timelineX

\* pointer-move or pointer-up while an item of state.photos is being dragged
DragStep ==
    /\ isDraggingPhoto
    /\ IndexOf(photos, draggedPhoto) # 0
    /\ \/ \E pt \in ScenePoints : MouseMove(pt[1], pt[2])
       \/ MouseUp(press.x, press.y, 500)

GridCells ==
    {<<Rat(2 * (Padding + Gap + c * (PhotoSize + Gap)) + PhotoSize, 2),
       Rat(2 * (50 + 50 + r * (PhotoSize + Gap)) + PhotoSize, 2)>> : c \in 0..2, r \in 0..1}
    \cup
    {<<Rat(2 * (50 + Gap + c * (PhotoSize + Gap)) + PhotoSize, 2),
       Rat(2 * (Padding + 50 + r * (PhotoSize + Gap)) + PhotoSize, 2)>> : c \in 0..1, r \in 0..1}

C9_DragSurvivesToggle ==
    \A i \in DOMAIN photos :
        LET u == userSet[photos[i].id][orientation]
        IN  (WithDate(photos[i]) /\ u # Undefined) =>
                FreeCoord(photos[i], orientation) = u

\* state.photos after one more render pass
Again(ps) == renderTimeline(ps, orientation, canvasWidth, canvasHeight, selectedYear,
                            isDraggingPhoto, draggedPhoto)

\* free coordinates a pass can find: unset, zero, and a place a drag chose
FreeValues == {Undefined, Num(0), Num(450)}

\* the photos with the free coordinate of the orientation at v
WithFree(ps, v) ==
    [i \in DOMAIN ps |->
        IF orientation = "horizontal" THEN [ps[i] EXCEPT !.timelineY = v]
        ELSE [ps[i] EXCEPT !.timelineX = v]]

\* of two passes over ps, the second gives every dated item the authoritative
\* coordinate of the first and changes no free coordinate the first left set
TwoPasses(ps) ==
    LET r1 == Again(ps)
        r2 == Again(r1)
    IN  \A i \in DOMAIN ps :
          /\ WithDate(ps[i]) =>
                AuthCoord(r2[i], orientation) = AuthCoord(r1[i], orientation)
          /\ FreeCoord(r1[i], orientation) # Undefined =>
                FreeCoord(r2[i], orientation) = FreeCoord(r1[i], orientation)

\* C10: two render passes with unchanged items, orientation, year and
\* canvas give every dated item the same authoritative coordinate both
\* times, and the second changes no free coordinate that is set
C10_LayoutIdempotent ==
    /\ TwoPasses(photos)
    /\ \A v \in FreeValues : TwoPasses(WithFree(photos, v))

\* a dragged item, laid out vertically after the drag
C10_Witness ==
    /\ orientation = "vertical"
    /\ \E i \in DOMAIN photos :
          /\ userSet[photos[i].id].horizontal # Undefined
          /\ WithDate(photos[i])

\* what a render pass is said to leave alone: item positions and anchors,
\* the curve, the viewport
Scene(s) ==
    [items |-> [i \in DOMAIN s.photos |->
                   <<s.photos[i].timelineX, s.photos[i].timelineY,
                     s.photos[i].initialTimelineY>>],
     curve |-> s.curvePoints,
     viewport |-> <<s.zoomLevel, s.panX, s.panY>>]

\* a render pass in engine state s changes nothing of the scene
PureRead(s) == Scene(Render(s)) = Scene(s)

\* C21: renderTimeline is a pure read: run in the current state, or by the
\* orientation buttons after they have set the orientation, it changes no
\* item position, no item anchor, no curve point and no viewport value
C21_RenderIsPureRead ==
    [][/\ PureRead(Cur)
       /\ \A o \in {"horizontal", "vertical"} :
             (TickScene /\ OrientationToggle(o)) =>
                 PureRead([Cur EXCEPT !.orientation = o])]_vars

\* the two halves of C21, apart
C21_AtRest == PureRead(Cur)
C21_AfterToggle ==
    [][\A o \in {"horizontal", "vertical"} :
          (TickScene /\ OrientationToggle(o)) =>
              PureRead([Cur EXCEPT !.orientation = o])]_vars

\* the midlines of the canvases the scene can have: canvasHeight / 2 for the
\* horizontal orientation, canvasWidth / 2 for the vertical one
Midlines(o) ==
    IF o = "horizontal" THEN {Rat(600, 2), Rat(1000, 2)}
    ELSE {Rat(w, 2) : w \in {1200, 800} \cup (RectWidths \ {0})}

\* C29: when the scene is switched to an orientation, every dated item that
\* no drag has placed in that orientation is laid out on the orientation's
\* midline: canvasHeight / 2 in horizontal, canvasWidth / 2 in vertical
C29_FirstPassOnMidline ==
    [][\A o \in {"horizontal", "vertical"} :
          (TickScene /\ OrientationToggle(o)) =>
              \A i \in DOMAIN photos :
                  (WithDate(photos[i]) /\ userSet[photos[i].id][o] = Undefined) =>
                      FreeCoord(photos'[i], o) \in Midlines(o)]_vars

HitPoints == {<<288, 300>>, <<288, 0>>, <<0, 168>>, <<115, 125>>, <<115, 0>>, <<0, 125>>,
              <<318, 330>>, <<319, 300>>, <<288, 450>>, <<600, 450>>}

\* photo p has a position, and the square of side 60 centred on it holds (x, y)
SquareHolds(p, x, y) ==
    /\ p.timelineX \notin {Undefined, NaN}
    /\ p.timelineY \notin {Undefined, NaN}
    /\ Le(AbsNum(Sub(x, p.timelineX)), Num(30))
    /\ Le(AbsNum(Sub(y, p.timelineY)), Num(30))

\* the id of the first photo of ps in collection order whose square holds (x, y)
FirstHolding(ps, x, y) ==
    IF \E i \in DOMAIN ps : SquareHolds(ps[i], x, y)
    THEN ps[CHOOSE i \in DOMAIN ps :
               /\ SquareHolds(ps[i], x, y)
               /\ \A j \in 1..(i - 1) : ~SquareHolds(ps[j], x, y)].id
    ELSE NoPhoto

\* C31: hit-testing at a content-space point returns the first item in
\* collection order that has a position and whose square of side 60 content
\* units holds the point, and none when there is no such item, at every zoom
C31_HitTestFirstMatch ==
    \A pt \in HitPoints :
        findPhotoAtPosition(photos, Num(pt[1]), Num(pt[2])) =
            FirstHolding(photos, Num(pt[1]), Num(pt[2]))

\* C37: a press at the place of an item that has a position finds that item,
\* or an item before it in collection order that covers the place, under
\* every viewport and for every position a drag has produced
C37_PlacedItemCanBePressed ==
    \A i \in DOMAIN photos :
        (/\ photos[i].timelineX \notin {Undefined, NaN}
         /\ photos[i].timelineY \notin {Undefined, NaN}) =>
            LET h == findPhotoAtPosition(photos, photos[i].timelineX, photos[i].timelineY)
            IN  \/ h = photos[i].id
                \/ h # NoPhoto /\ IndexOf(photos, h) < i

\* C36: whenever the scene is laid out, the canvas has the size of the
\* current orientation: height 600 in horizontal, 800 by 1000 in vertical
C36_CanvasMatchesOrientation ==
    /\ orientation = "horizontal" => canvasHeight = 600
    /\ orientation = "vertical" => canvasWidth = 800 /\ canvasHeight = 1000

(***************************************************************************)
(* SpecIngest: files are ingested, the timeline is created and left again   *)
(***************************************************************************)
MaxIngestSteps == 4

\* a date in the year most photos are from, one in the year before, and
\* 1 July 2023 in the first hour after midnight, daylight-saving time
FileDates == {MkDate(2023, 73, 12, 0), MkDate(2022, 10, 12, 0), MkDate(2023, 182, 0, 1)}

\* the files offered: with or without an EXIF date, or unparsable
Files ==
    [exif : {"throws", "undefined", "noDate"}, exifDate : {InvalidDate},
     lastModified : FileDates]
    \cup
    [exif : {"date"}, exifDate : FileDates \cup {InvalidDate},
     lastModified : {MkDate(2023, 300, 12, 0)}]

InitIngest == InitUpload

TickIngest == steps < MaxIngestSteps /\ steps' = steps + 1

NextIngest ==
    \/ \E f \in Files : TickIngest /\ nextId <= MaxPhotos /\ ProcessFile(f)
    \/ \E id \in PhotoIds : TickIngest /\ RemovePhoto(id)
    \/ \E id \in PhotoIds : TickIngest /\ GridImageClick(id)
    \/ TickIngest /\ closePhotoModal
    \/ TickIngest /\ CreateTimelineButton(0)
    \/ TickIngest /\ BackToPhotosButton
    \/ \E o \in {"horizontal", "vertical"} : TickIngest /\ OrientationToggle(o)

SpecIngest == InitIngest /\ [][NextIngest]_vars

\* the photo sits on the time axis: at the axis coordinate of its date, on
\* the midline
OnTimeAxis(p) ==
    \/ /\ orientation = "horizontal"
       /\ p.timelineX = HorizontalDated(p, canvasWidth, canvasHeight, selectedYear,
                                        FALSE, NoPhoto).timelineX
       /\ p.timelineY = Rat(canvasHeight, 2)
    \/ /\ orientation = "vertical"
       /\ p.timelineY = VerticalDated(p, canvasWidth, canvasHeight, selectedYear,
                                      FALSE, NoPhoto).timelineY

\* C8: a photo from a file with no EXIF date field, or whose EXIF parse
\* failed, has hasValidDate = false and, once laid out, is in the fallback
\* region and not on the time axis
C8_NoExifDateIsUndated ==
    \A i \in DOMAIN photos :
        photos[i].exifData # "date" =>
            /\ photos[i].hasValidDate = "false"
            /\ section = "timeline" =>
                  /\ <<photos[i].timelineX, photos[i].timelineY>> \in GridCells
                  /\ ~OnTimeAxis(photos[i])

\* C24: an item whose captureDate is malformed has no position, and no item
\* has NaN for a coordinate
C24_MalformedDateUnplaced ==
    \A i \in DOMAIN photos :
        /\ ~photos[i].captureDate.valid =>
              photos[i].timelineX = Undefined /\ photos[i].timelineY = Undefined
        /\ photos[i].timelineX # NaN
        /\ photos[i].timelineY # NaN

\* axisStart + axisLength * dayOfYear / totalDays, from the date, the
\* orientation, the year and the canvas size alone
AxisCoord(date, o, year, W, H) ==
    LET extent == IF o = "horizontal" THEN W ELSE H
        axisStart == Num(Padding)
        axisLength == Num(extent - 2 * Padding)
        totalDays == IF isLeapYear(year) THEN Num(366) ELSE Num(365)
    IN  Add(axisStart, Div(Mul(axisLength, getDayOfYear(date)), totalDays))

\* state.photos in the opposite order
Reverse(ps) == [i \in DOMAIN ps |-> ps[Len(ps) + 1 - i]]

\* C25: a dated item that has been laid out has the axis coordinate of its
\* date; a further pass gives it that coordinate again, and so does a pass
\* over the same list in another order
C25_DateFixesCoordinate ==
    LET laid == Again(photos)
        permuted == Again(Reverse(photos))
    IN  \A i \in DOMAIN photos :
            (WithDate(photos[i]) /\ photos[i].captureDate.valid) =>
                LET c == AxisCoord(photos[i].captureDate, orientation, selectedYear,
                                   canvasWidth, canvasHeight)
                IN  /\ AuthCoord(photos[i], orientation) \in {Undefined, c}
                    /\ AuthCoord(laid[i], orientation) = c
                    /\ AuthCoord(permuted[Len(photos) + 1 - i], orientation) = c

\* two items of different dates, both laid out
C25_Witness ==
    /\ section = "timeline"
    /\ Len(photos) = 2
    /\ photos[1].captureDate # photos[2].captureDate
    /\ \A i \in DOMAIN photos :
          /\ photos[i].captureDate.valid
          /\ AuthCoord(photos[i], orientation) # Undefined

\* C33: getDayOfYear of every capture date is the 1-based ordinal day of the
\* date in its own calendar year, at every time of day, daylight-saving
\* periods included
C33_DayOfYearIsOrdinal ==
    \A i \in DOMAIN photos :
        photos[i].captureDate.valid =>
            getDayOfYear(photos[i].captureDate) = Num(photos[i].captureDate.ord)

\* the capture years of the validly dated photos of ps
CaptureYears(ps) == {ps[i].captureDate.year : i \in {j \in DOMAIN ps : ps[j].captureDate.valid}}

\* the dated photos of ps that have been laid out are within the axis
\* interval [axisStart, axisEnd] of orientation o on a W x H canvas
WithinAxis(ps, o, W, H) ==
    LET extent == IF o = "horizontal" THEN W ELSE H
    IN  \A i \in DOMAIN ps :
            (WithDate(ps[i]) /\ AuthCoord(ps[i], o) # Undefined) =>
                /\ Le(Num(Padding), AuthCoord(ps[i], o))
                /\ Le(AuthCoord(ps[i], o), Num(extent - Padding))

\* C40: create-timeline on a non-empty list selects a capture year whose
\* photo count is maximal among the capture years present and keeps only
\* photos captured in that year; from then on every dated item that has been
\* laid out has its authoritative coordinate within [axisStart, axisEnd]
C40_ModalYearWithinAxis ==
    [][/\ (TickIngest /\ CreateTimelineButton(0)) =>
             /\ selectedYear' \in CaptureYears(photos)
             /\ \A z \in CaptureYears(photos) :
                    YearCount(photos, z) <= YearCount(photos, selectedYear')
             /\ \A i \in DOMAIN photos' :
                    /\ photos'[i].captureDate.valid
                    /\ photos'[i].captureDate.year = selectedYear'
       /\ section' = "timeline" =>
             WithinAxis(photos', orientation', canvasWidth', canvasHeight')]_vars

\* the parts of C40, apart
C40_AtCreate ==
    [][(TickIngest /\ CreateTimelineButton(0)) =>
          /\ selectedYear' \in CaptureYears(photos)
          /\ \A z \in CaptureYears(photos) :
                 YearCount(photos, z) <= YearCount(photos, selectedYear')
          /\ \A i \in DOMAIN photos' :
                 /\ photos'[i].captureDate.valid
                 /\ photos'[i].captureDate.year = selectedYear']_vars
C40_AtCreateAllValid ==
    [][(/\ TickIngest /\ CreateTimelineButton(0)
        /\ \A i \in DOMAIN photos : photos[i].captureDate.valid) =>
          /\ selectedYear' \in CaptureYears(photos)
          /\ \A z \in CaptureYears(photos) :
                 YearCount(photos, z) <= YearCount(photos, selectedYear')
          /\ \A i \in DOMAIN photos' :
                 /\ photos'[i].captureDate.valid
                 /\ photos'[i].captureDate.year = selectedYear']_vars
C40_LaterPasses ==
    section = "timeline" => WithinAxis(photos, orientation, canvasWidth, canvasHeight)

(***************************************************************************)
(* SpecEntry: the timeline is zoomed and panned, left and entered again     *)
(***************************************************************************)
MaxEntrySteps == 4

InitEntry == InitTimeline(SceneItems, 0)

TickEntry == steps < MaxEntrySteps /\ steps' = steps + 1

NextEntry ==
    \/ \E pt \in WheelPoints, dy \in WheelDeltas : TickEntry /\ Wheel(pt[1], pt[2], dy)
    \/ \E k \in {"Digit0", "ArrowLeft", "ArrowUp"} : TickEntry /\ KeyDown(k)
    \/ TickEntry /\ ZoomInBtn
    \/ TickEntry /\ BackToPhotosButton
    \/ TickEntry /\ CreateTimelineButton(0)
    \/ \E id \in PhotoIds : TickEntry /\ RemovePhoto(id)

SpecEntry == InitEntry /\ [][NextEntry]_vars

\* zoom = 1, pan = (0, 0)
IdentityViewport(z, px, py) == z = Num(1) /\ px = Num(0) /\ py = Num(0)

\* C11: entering the timeline view (the create-timeline action, also after
\* going back to the photo list) and the reset key leave the viewport at
\* identity: zoomLevel = 1 and pan = (0, 0)
C11_EntryResetsViewport ==
    [][((section = "upload" /\ section' = "timeline")
          \/ (TickEntry /\ KeyDown("Digit0")))
       => IdentityViewport(zoomLevel', panX', panY')]_vars

(***************************************************************************)
(* SpecDraw: the curve is drawn, with mouse or finger, under a viewport     *)
(* the user has zoomed and panned, and cleared                              *)
(***************************************************************************)
MaxDrawSteps == 5

\* two points off every photo, and one on the dated photo
DrawPoints == {<<600, 450>>, <<610, 460>>, <<288, 300>>}

InitDraw == InitTimeline(SceneItems, 0)

TickDraw == steps < MaxDrawSteps /\ steps' = steps + 1

NextDraw ==
    \/ TickDraw /\ DrawModeButton
    \/ \E pt \in DrawPoints : TickDraw /\ MouseDown(pt[1], pt[2])
    \/ \E pt \in DrawPoints : TickDraw /\ MouseMove(pt[1], pt[2])
    \/ TickDraw /\ MouseUp(press.x, press.y, 500)
    \/ \E pt \in DrawPoints : TickDraw /\ TouchStart(pt[1], pt[2])
    \/ \E pt \in DrawPoints : TickDraw /\ TouchMove(pt[1], pt[2])
    \/ TickDraw /\ TouchEnd
    \/ TickDraw /\ ZoomInBtn
    \/ TickDraw /\ KeyDown("ArrowLeft")
    \/ TickDraw /\ ClearCurveButton
    \/ TickDraw /\ FinishDrawingButton
    \/ TickDraw /\ ResetButton

SpecDraw == InitDraw /\ [][NextDraw]_vars

\* the points the step appended to the curve
Appended == {curvePoints'[k] : k \in (Len(curvePoints) + 1)..Len(curvePoints')}

\* a pointer-down or pointer-move at pt, by mouse or by finger
PointerAt(pt) ==
    \/ MouseDown(pt[1], pt[2])
    \/ MouseMove(pt[1], pt[2])
    \/ TouchStart(pt[1], pt[2])
    \/ TouchMove(pt[1], pt[2])

\* C13: every point a pointer-down or pointer-move over no photo appends to
\* the curve is the content-space image of the cursor, (screen - pan) / zoom
C13_CurvePointsInContentSpace ==
    [][\A pt \in DrawPoints :
          (TickDraw /\ PressedOn(pt[1], pt[2]) = NoPhoto /\ PointerAt(pt)) =>
             \A q \in Appended :
                /\ q.x = ToContentX(Cur, pt[1])
                /\ q.y = ToContentY(Cur, pt[2])]_vars

\* ps is a prefix of qs
IsPrefix(ps, qs) == Len(ps) <= Len(qs) /\ SubSeq(qs, 1, Len(ps)) = ps

\* C14: clear-curve empties the curve, and every step other than clear-curve
\* and the full reset keeps the curve it found as a prefix of the new one
C14_CurveAppendOnly ==
    [][IF TickDraw /\ ClearCurveButton THEN curvePoints' = <<>>
       ELSE IF TickDraw /\ ResetButton THEN TRUE
       ELSE IsPrefix(curvePoints, curvePoints')]_vars

\* a stroke of three points has been drawn
C14_Witness == Len(curvePoints) >= 3

\* C26: in draw mode a mouse press on an item starts a drag of that item and
\* appends nothing to the curve; the moves that follow while the button is
\* held put the item's free coordinate under the pointer and append nothing
C26_PressOnItemDragsIt ==
    [][\A pt \in DrawPoints :
          /\ (TickDraw /\ isDrawingMode /\ PressedOn(pt[1], pt[2]) # NoPhoto
                /\ MouseDown(pt[1], pt[2])) =>
                /\ isDraggingPhoto' /\ draggedPhoto' = PressedOn(pt[1], pt[2])
                /\ ~isDrawing'
                /\ curvePoints' = curvePoints
          /\ (TickDraw /\ isDrawingMode /\ buttonDown /\ press.hit # NoPhoto
                /\ MouseMove(pt[1], pt[2])) =>
                /\ curvePoints' = curvePoints
                /\ LET i == IndexOf(photos, press.hit)
                   IN  FreeCoord(photos'[i], orientation) =
                          IF orientation = "horizontal" THEN ToContentY(Cur, pt[2])
                          ELSE ToContentX(Cur, pt[1])]_vars

\* C27: in draw mode a single mouse press on empty canvas, space not held,
\* appends exactly one point to the curve
C27_PressAppendsOnePoint ==
    [][\A pt \in DrawPoints :
          (TickDraw /\ isDrawingMode /\ ~spacePressed
             /\ PressedOn(pt[1], pt[2]) = NoPhoto /\ MouseDown(pt[1], pt[2])) =>
              Len(curvePoints') = Len(curvePoints) + 1]_vars

(***************************************************************************)
(* SpecEmotion: items are dragged, in either orientation, while their       *)
(* emotion level is shown                                                   *)
(***************************************************************************)
MaxEmotionSteps == 4

\* on the dated item and on the item without date, and places to drag to
EmotionPoints ==
    {<<288, 300>>, <<288, 225>>, <<288, 150>>, <<288, 100>>, <<115, 125>>, <<600, 150>>}

InitEmotion == InitTimeline(SceneItems, 0)

TickEmotion == steps < MaxEmotionSteps /\ steps' = steps + 1

NextEmotion ==
    \/ \E pt \in EmotionPoints : TickEmotion /\ MouseDown(pt[1], pt[2])
    \/ \E pt \in EmotionPoints : TickEmotion /\ MouseMove(pt[1], pt[2])
    \/ TickEmotion /\ MouseUp(press.x, press.y, 500)
    \/ \E o \in {"horizontal", "vertical"} : TickEmotion /\ OrientationToggle(o)
    \/ \E i \in 1..MaxPhotos : TickEmotion /\ ImageLoad(i)
    \/ TickEmotion /\ Resize(0)

SpecEmotion == InitEmotion /\ [][NextEmotion]_vars

\* drawPhoto shows the level of photos[i]: it is the dragged photo and its
\* image is there
LevelShown(ps, i, dragging, dragged) ==
    dragging /\ dragged = ps[i].id /\ ps[i].cachedImage = "complete"

\* the level shown for photo p in the current orientation and canvas
Level(p) == calculateEmotionLevel(p, orientation, canvasHeight)

\* round((a - c) / (extent / 4) * 10), clamped to -10 .. 10
ExpectedLevel(a, c, extent) ==
    LET level == Round(Mul(Div(Sub(a, c), Div(Num(extent), Num(4))), Num(10)))
    IN  IF Lt(level, Num(-10)) THEN Num(-10)
        ELSE IF Lt(Num(10), level) THEN Num(10)
        ELSE level

\* C15: in horizontal orientation the level shown for an item whose drag
\* anchor (its y at the start of its first drag) is a and whose y is c is
\* round((a - c) / (canvasHeight / 4) * 10) clamped to -10 .. 10
C15_HorizontalLevel ==
    \A i \in DOMAIN photos :
        (orientation = "horizontal" /\ LevelShown(photos, i, isDraggingPhoto, draggedPhoto)) =>
            Level(photos[i]) =
                ExpectedLevel(userSet[photos[i].id].startY, photos[i].timelineY, canvasHeight)

\* the photo is where it was at the start of its first drag
AtStart(p) ==
    /\ userSet[p.id].startX # Undefined
    /\ p.timelineX = userSet[p.id].startX
    /\ p.timelineY = userSet[p.id].startY

\* C16: the anchor of an item, dated or not, is its position at the start
\* of its first drag (so it never changes once captured), and the level
\* shown for an item dragged back to that position is 0
C16_AnchorIsFirstDragStart ==
    \A i \in DOMAIN photos :
        /\ photos[i].initialTimelineY # Undefined =>
              photos[i].initialTimelineY \in
                  {userSet[photos[i].id].startX, userSet[photos[i].id].startY}
        /\ (LevelShown(photos, i, isDraggingPhoto, draggedPhoto) /\ AtStart(photos[i])) =>
              Level(photos[i]) = Num(0)

\* a quarter of the larger side of the canvas
QuarterExtent == Div(Num(Max(canvasWidth, canvasHeight)), Num(4))

\* C17: in vertical orientation the level shown follows the displacement
\* along x, the axis the drag changes: an item a quarter of the frame extent
\* or more away from its x at the start of its first drag has a level of
\* magnitude 10
C17_VerticalLevelAlongX ==
    \A i \in DOMAIN photos :
        (/\ orientation = "vertical"
         /\ LevelShown(photos, i, isDraggingPhoto, draggedPhoto)
         /\ userSet[photos[i].id].startX # Undefined
         /\ Le(QuarterExtent,
               AbsNum(Sub(photos[i].timelineX, userSet[photos[i].id].startX)))) =>
            AbsNum(Level(photos[i])) = Num(10)

\* positions and anchors an item can have
LevelCoords == {Num(-200), Num(1), Num(125), Num(150), Num(300), Num(450), Num(1000)}

\* C18: for every item position, anchor, orientation and canvas size the
\* level is an integer from -10 to 10, and it is 10 or -10 when the
\* displacement exceeds a quarter of the frame extent
C18_LevelInRange ==
    \A i \in DOMAIN photos, o \in {"horizontal", "vertical"}, y \in LevelCoords,
       a \in LevelCoords \cup {Undefined} :
        LET p == [photos[i] EXCEPT !.timelineY = y, !.initialTimelineY = a]
            level == calculateEmotionLevel(p, o, canvasHeight)
            centerY == IF o = "horizontal" THEN Div(Num(canvasHeight), Num(2))
                       ELSE AnchorAfter(p, o, canvasHeight)
        IN  /\ IsNum(level) /\ level[2] = 1
            /\ Le(Num(-10), level) /\ Le(level, Num(10))
            /\ Lt(Div(Num(canvasHeight), Num(4)), AbsNum(Sub(centerY, y))) =>
                  AbsNum(level) = Num(10)

\* a level is shown for an item dragged more than a quarter of the canvas
\* height above the midline
C18_Witness ==
    /\ orientation = "horizontal"
    /\ \E i \in DOMAIN photos :
          /\ LevelShown(photos, i, isDraggingPhoto, draggedPhoto)
          /\ photos[i].timelineY = Num(100)
          /\ Level(photos[i]) = Num(10)

(***************************************************************************)
(* SpecLoad: images finish decoding while the scene is used and rebuilt     *)
(***************************************************************************)
MaxLoadSteps == 4

\* on the dated photo; a point below the axis
LoadPoints == {<<288, 300>>, <<288, 450>>}

InitLoad == InitTimeline(SceneItems, 0)

TickLoad == steps < MaxLoadSteps /\ steps' = steps + 1

NextLoad ==
    \/ \E i \in 1..MaxPhotos : TickLoad /\ ImageLoad(i)
    \/ \E p \in detached : TickLoad /\ DetachedImageLoad(p)
    \/ \E pt \in LoadPoints : TickLoad /\ MouseDown(pt[1], pt[2])
    \/ \E pt \in LoadPoints : TickLoad /\ MouseMove(pt[1], pt[2])
    \/ TickLoad /\ MouseUp(press.x, press.y, 500)
    \/ TickLoad /\ ZoomInBtn
    \/ TickLoad /\ KeyDown("ArrowLeft")
    \/ TickLoad /\ BackToPhotosButton
    \/ \E id \in PhotoIds : TickLoad /\ RemovePhoto(id)
    \/ TickLoad /\ CreateTimelineButton(0)
    \/ TickLoad /\ ResetButton

SpecLoad == InitLoad /\ [][NextLoad]_vars

\* C22: when the image of an item that a frame skipped finishes decoding,
\* the canvas is as one full render pass at that moment leaves it: the item
\* is painted at its current position under the current viewport transform
C22_LoadRepaintsFrame ==
    [][\A i \in 1..MaxPhotos :
          (TickLoad /\ ImageLoad(i) /\ photos[i].onload) =>
              frame' = Frame(photos', zoomLevel', panX', panY')]_vars

\* C23: the frame shown holds no item that has been removed from the scene,
\* also when the image of a removed item finishes decoding late
C23_RemovedItemNotPainted ==
    section = "timeline" => \A f \in frame : IndexOf(photos, f.id) # 0
(***************************************************************************)
(* SpecRelease: drags and pans that end over the canvas or outside it       *)
(***************************************************************************)
MaxReleaseSteps == 7

\* on the dated photo; on the undated one; a point below the axis
ReleasePoints == {<<288, 300>>, <<115, 125>>, <<288, 450>>}

InitRelease == InitTimeline(SceneItems, 0)

TickRelease == steps < MaxReleaseSteps /\ steps' = steps + 1

NextRelease ==
    \/ \E pt \in ReleasePoints : TickRelease /\ MouseDown(pt[1], pt[2])
    \/ \E pt \in ReleasePoints : TickRelease /\ MouseMove(pt[1], pt[2])
    \/ TickRelease /\ MouseUp(press.x, press.y, 500)
    \/ TickRelease /\ MouseLeave
    \/ TickRelease /\ ReleaseOutside
    \/ TickRelease /\ KeyDown("Space")

SpecRelease == InitRelease /\ [][NextRelease]_vars

\* C28: after a pointer-up delivered to the canvas no pan and no drag is in
\* progress, no item is the dragged one, and no item carries originalX or
\* originalY, whatever went before
C28_PointerUpSettles ==
    [][(TickRelease /\ MouseUp(press.x, press.y, 500)) =>
          /\ ~isPanning'
          /\ ~isDraggingPhoto'
          /\ draggedPhoto' = NoPhoto
          /\ \A i \in DOMAIN photos' :
                /\ photos'[i].originalX = Undefined
                /\ photos'[i].originalY = Undefined]_vars
(***************************************************************************)
(* SpecYear: timelines of leap years and of common years                    *)
(***************************************************************************)
MaxYearSteps == 4

\* a century year that is no leap year, one that is, a common year, a leap year
Years == {1900, 2000, 2023, 2024}

\* the number of days of these years in the Gregorian calendar
YearLength == [y \in Years |-> IF y \in {2000, 2024} THEN 366 ELSE 365]

\* the files offered: taken at noon of 1 March or of 31 December
YearFiles ==
    {[exif |-> "date", exifDate |-> MkDate(y, d, 12, 0),
      lastModified |-> MkDate(2023, 300, 12, 0)] :
        y \in Years, d \in {60, 365, 366}} \
    {[exif |-> "date", exifDate |-> MkDate(y, 366, 12, 0),
      lastModified |-> MkDate(2023, 300, 12, 0)] : y \in {1900, 2023}}

InitYear == InitUpload

TickYear == steps < MaxYearSteps /\ steps' = steps + 1

NextYear ==
    \/ \E f \in YearFiles : TickYear /\ nextId <= MaxPhotos /\ ProcessFile(f)
    \/ TickYear /\ CreateTimelineButton(0)
    \/ TickYear /\ BackToPhotosButton
    \/ \E o \in {"horizontal", "vertical"} : TickYear /\ OrientationToggle(o)

SpecYear == InitYear /\ [][NextYear]_vars

\* C34: isLeapYear of the reference year is true exactly when the year has
\* 366 days (2000 and 2024 have, 1900 and 2023 have not), and every dated
\* item is laid out with totalDays = 366 in such a year and 365 otherwise
C34_TotalDaysFollowsLeapYear ==
    (section = "timeline" /\ selectedYear \in Years) =>
        /\ isLeapYear(selectedYear) <=> YearLength[selectedYear] = 366
        /\ \A i \in DOMAIN photos :
              LET extent == IF orientation = "horizontal" THEN canvasWidth
                            ELSE canvasHeight
                  c == Add(Num(Padding),
                           Div(Mul(Num(extent - 2 * Padding),
                                   getDayOfYear(photos[i].captureDate)),
                               Num(YearLength[selectedYear])))
              IN  AuthCoord(photos[i], orientation) \in {Undefined, c}

\* the timeline of the year 2000 with an item of 31 December at the axis end
C34_Witness ==
    /\ section = "timeline"
    /\ selectedYear = 2000
    /\ \E i \in DOMAIN photos :
          /\ photos[i].captureDate.ord = 366
          /\ AuthCoord(photos[i], orientation) =
                Num((IF orientation = "horizontal" THEN canvasWidth ELSE canvasHeight)
                    - Padding)
=============================================================================
